---- MODULE Spec2Model ----
(***************************************************************************)
(* Model of personal-voice-agent.  Server (src/server/llm/index.ts): the   *)
(* per-connection session state, the turn pipeline run by the              *)
(* user_audio_end handler, the TTS chunker (createOptimalTTSChunks /       *)
(* splitLongChunk) and the base64 conversions applied to audio.  Client:   *)
(* the playback queue (src/ui/src/hooks/usePlayer.ts) and the recording    *)
(* side of VoiceAgent (src/ui/src/components/VoiceAgent.tsx).  Each part   *)
(* has its own specification; the variables of the other parts stay at     *)
(* their initial values in it.  SystemSpec runs one client against its     *)
(* server session over one connection.                                     *)
(***************************************************************************)
EXTENDS Integers, Sequences, FiniteSets, TLC

\* ------------------------------------------------------------------ bounds
\* uuid() calls (accepted user_audio_start messages) explored per connection
MaxStarts == 2
\* user_audio_chunk messages explored after each user_audio_start
MaxChunks == 2
\* size of the first text fragment the generation stream may deliver
DeltaLen == 30
\* length of the longest text of the enumerated chunker inputs
MaxTextLen == 6
\* largest maxChunkLength the enumerated texts are chunked with
MaxChunkLen == 4
\* queueAudio calls explored
MaxSegments == 3
\* initAudio calls that may be under way or have succeeded
MaxInits == 2
\* user_audio_start messages the client may send
MaxRecordings == 2
\* dataavailable events with data
MaxSlices == 1
\* ai_audio messages a client without its server is given
MaxAudio == 1

\* ------------------------------------------------------ program constants
\* `let currentSessionId: string | null = null`
Null == 0
\* `if (completeBuffer.length < 1000)`
MinBufferBytes == 1000
\* `maxChunkLength: number = 50`
DefaultMaxChunkLength == 50
\* the base64 padding character '=', after the 64 alphabet symbols 0..63
Pad == 64
\* stopMark before any stopPlayback call
NoStop == -1
\* `const VOLUME_THRESHOLD = 0.1`, volumes being counted in hundredths
VOLUME_THRESHOLD == 10
\* `const SILENCE_DURATION = 1500`
SILENCE_DURATION == 1500

Min(a, b) == IF a <= b THEN a ELSE b

\* ------------------------------------------------------------------ base64
\* A base64 string is a sequence of symbols 0..63 (the alphabet, by value) and
\* Pad; a Buffer is a sequence of bytes 0..255.

\* The part of a base64 string the decoder reads: decoding stops at '='.
Base64Payload(s) ==
  LET pads == {i \in 1..Len(s) : s[i] = Pad}
  IN  IF pads = {} THEN s
      ELSE SubSeq(s, 1, (CHOOSE i \in pads : \A j \in pads : i <= j) - 1)

\* Buffer.from(chunk, 'base64'): every 4 symbols give 3 bytes; 2 or 3
\* trailing symbols give 1 or 2 bytes.
Base64Decode(s) ==
  LET t == Base64Payload(s)
  IN  [j \in 1..((Len(t) * 6) \div 8) |->
         LET k == (j - 1) \div 3
             r == (j - 1) % 3
             a == t[4 * k + r + 1]
             b == t[4 * k + r + 2]
         IN  CASE r = 0 -> a * 4 + b \div 16
               [] r = 1 -> (a % 16) * 16 + b \div 4
               [] r = 2 -> (a % 4) * 64 + b]

\* audioBuffer.toString('base64'): every 3 bytes give 4 symbols, the last
\* group padded with '='.
Base64Encode(bytes) ==
  LET n == Len(bytes)
      At(x) == IF x <= n THEN bytes[x] ELSE 0
  IN  [p \in 1..(4 * ((n + 2) \div 3)) |->
         LET q == (p - 1) \div 4
             r == (p - 1) % 4
             b0 == At(3 * q + 1)
             b1 == At(3 * q + 2)
             b2 == At(3 * q + 3)
         IN  CASE r = 0 -> b0 \div 4
               [] r = 1 -> (b0 % 4) * 16 + b1 \div 16
               [] r = 2 -> IF 3 * q + 2 > n THEN Pad
                           ELSE (b1 % 16) * 4 + b2 \div 64
               [] r = 3 -> IF 3 * q + 3 > n THEN Pad ELSE b2 % 64]

\* Buffer.concat(list): the buffers of the list one after another.
RECURSIVE BufferConcat(_)
BufferConcat(list) ==
  IF list = <<>> THEN <<>>
  ELSE Head(list) \o BufferConcat(Tail(list))

\* audioChunks.map((chunk) => Buffer.from(chunk, 'base64'))
DecodeAll(chunksB64) == [k \in 1..Len(chunksB64) |-> Base64Decode(chunksB64[k])]

\* ------------------------------------------------------------- TTS chunker
\* A text is a sequence of one-character strings.

\* The line tabulation U+000B, as a one-character string.
VerticalTab == ""

\* \s of the split pattern and the characters String.prototype.trim removes:
\* the white space and line terminators of ECMAScript.  The last three
\* listed are U+00A0, U+1680 and U+FEFF, written as themselves in UTF-8.
\* The others of the class (U+2000 to U+200A, U+2028, U+2029, U+202F,
\* U+205F, U+3000) are not accepted in a string by the parser and are in no
\* text of the model.  A character is a string of length one: read in
\* another encoding the characters outside ASCII become longer strings,
\* which are no characters and so no white space.
IsSpace(c) ==
  /\ Len(c) = 1
  /\ c \in {" ", "\n", "\t", "\r", "\f", VerticalTab, " ", " ", "﻿"}
\* [A-Z]
IsUpper(c) ==
  c \in {"A", "B", "C", "D", "E", "F", "G", "H", "I", "J", "K", "L", "M",
         "N", "O", "P", "Q", "R", "S", "T", "U", "V", "W", "X", "Y", "Z"}
\* [.!?;]
IsTerminator(c) == c \in {".", "!", "?", ";"}

\* s.trim()
Trim(s) ==
  LET keep == {i \in 1..Len(s) : ~IsSpace(s[i])}
  IN  IF keep = {} THEN <<>>
      ELSE SubSeq(s, CHOOSE i \in keep : \A j \in keep : i <= j,
                     CHOOSE i \in keep : \A j \in keep : i >= j)

\* The last index of the whitespace run that starts at index p of s.
SpaceRunEnd(s, p) ==
  CHOOSE q \in p..Len(s) :
    /\ \A k \in p..q : IsSpace(s[k])
    /\ q = Len(s) \/ ~IsSpace(s[q + 1])

\* Where /(?<=[.!?;])\s+(?=[A-Z])/ matches: the whitespace runs that follow a
\* terminator and are followed by a capital letter (by their first index).
SentenceBreaks(s) ==
  {p \in 2..Len(s) :
     /\ IsTerminator(s[p - 1])
     /\ IsSpace(s[p])
     /\ SpaceRunEnd(s, p) < Len(s)
     /\ IsUpper(s[SpaceRunEnd(s, p) + 1])}

\* text.split(/(?<=[.!?;])\s+(?=[A-Z])/g)
RECURSIVE SplitSentences(_)
SplitSentences(s) ==
  LET breaks == SentenceBreaks(s)
  IN  IF breaks = {} THEN <<s>>
      ELSE LET p == CHOOSE i \in breaks : \A j \in breaks : i <= j
           IN  <<SubSeq(s, 1, p - 1)>>
                 \o SplitSentences(SubSeq(s, SpaceRunEnd(s, p) + 1, Len(s)))

\* list.filter((s) => s.length > 0)
RECURSIVE NonEmpty(_)
NonEmpty(list) ==
  IF list = <<>> THEN <<>>
  ELSE IF Len(Head(list)) > 0 THEN <<Head(list)>> \o NonEmpty(Tail(list))
  ELSE NonEmpty(Tail(list))

\* The greedy loop of createOptimalTTSChunks from sentence i on (1-based),
\* with the running currentChunk and the chunks pushed so far.
RECURSIVE GreedyMerge(_, _, _, _, _)
GreedyMerge(sentences, i, currentChunk, chunks, maxChunkLength) ==
  IF i > Len(sentences) THEN chunks
  ELSE
    LET sentence == sentences[i]
        potentialChunk == IF Len(currentChunk) > 0
                          THEN currentChunk \o <<" ">> \o sentence
                          ELSE sentence
        seal == Len(potentialChunk) > maxChunkLength /\ Len(currentChunk) > 0
        chunks1 == IF seal THEN Append(chunks, Trim(currentChunk)) ELSE chunks
        current1 == IF seal THEN sentence ELSE potentialChunk
        chunks2 == IF i = Len(sentences)
                   THEN Append(chunks1, Trim(current1)) ELSE chunks1
    IN  GreedyMerge(sentences, i + 1, current1, chunks2, maxChunkLength)

\* remaining.lastIndexOf(sep, from): the largest 0-based index <= from at
\* which sep occurs in s, or -1.
LastIndexOf(s, sep, from) ==
  LET hits == {k \in 0..Min(from, Len(s) - Len(sep)) :
                 SubSeq(s, k + 1, k + Len(sep)) = sep}
  IN  IF hits = {} THEN -1
      ELSE CHOOSE k \in hits : \A j \in hits : k >= j

\* The separators splitLongChunk tries, in priority order.
BreakSeparators ==
  << <<",", " ">>, <<" ", "a", "n", "d", " ">>, <<" ", "o", "r", " ">>,
     <<" ", "b", "u", "t", " ">>, <<" ", "-", " ">>, <<" ">> >>

\* The test of find admitting a break point at exactly half the maximum.
FindBreakPointFromHalf(remaining, maxLength) ==
  LET breakPoints == [k \in 1..Len(BreakSeparators) |->
                        LastIndexOf(remaining, BreakSeparators[k], maxLength)]
      good == {k \in 1..Len(breakPoints) : 2 * breakPoints[k] >= maxLength}
  IN  IF good = {} THEN -1
      ELSE breakPoints[CHOOSE k \in good : \A j \in good : k <= j]

\* breakPoints.find((bp) => bp > maxLength * 0.5), -1 when find gives undefined
FindBreakPoint(remaining, maxLength) ==
  LET breakPoints == [k \in 1..Len(BreakSeparators) |->
                        LastIndexOf(remaining, BreakSeparators[k], maxLength)]
      good == {k \in 1..Len(breakPoints) : 2 * breakPoints[k] > maxLength}
  IN  IF good = {} THEN -1
      ELSE breakPoints[CHOOSE k \in good : \A j \in good : k <= j]

\* One iteration of the while loop of splitLongChunk: the chunk pushed.
SplitHead(remaining, maxLength) ==
  LET breakPoint == FindBreakPoint(remaining, maxLength)
  IN  IF breakPoint > 0
      THEN Trim(SubSeq(remaining, 1, breakPoint + 1))
      ELSE Trim(SubSeq(remaining, 1, maxLength))

\* The new remaining taken from index maxLength whatever the break point.
SplitRestAtMax(remaining, maxLength) ==
  Trim(SubSeq(remaining, maxLength + 1, Len(remaining)))

\* The iteration leaving remaining as it was.
SplitRestUnchanged(remaining, maxLength) == remaining

\* One iteration of the while loop of splitLongChunk: the new remaining.
SplitRest(remaining, maxLength) ==
  LET breakPoint == FindBreakPoint(remaining, maxLength)
  IN  IF breakPoint > 0
      THEN Trim(SubSeq(remaining, breakPoint + 2, Len(remaining)))
      ELSE Trim(SubSeq(remaining, maxLength + 1, Len(remaining)))

RECURSIVE splitLongChunk(_, _)
splitLongChunk(text, maxLength) ==
  IF Len(text) > maxLength
  THEN <<SplitHead(text, maxLength)>>
         \o splitLongChunk(SplitRest(text, maxLength), maxLength)
  ELSE IF Len(text) > 0 THEN <<text>> ELSE <<>>

\* chunks.flatMap(chunk => chunk.length > max ? splitLongChunk(chunk, max) : [chunk])
RECURSIVE SplitTooLong(_, _)
SplitTooLong(chunks, maxChunkLength) ==
  IF chunks = <<>> THEN <<>>
  ELSE (IF Len(Head(chunks)) > maxChunkLength
        THEN splitLongChunk(Head(chunks), maxChunkLength)
        ELSE <<Head(chunks)>>)
         \o SplitTooLong(Tail(chunks), maxChunkLength)

\* The guard without the trim.
IsBlankEmptyOnly(text) == Len(text) = 0

\* !text || text.trim().length === 0
IsBlank(text) == Len(text) = 0 \/ Len(Trim(text)) = 0

createOptimalTTSChunks(text, maxChunkLength) ==
  IF IsBlank(text) THEN <<>>
  ELSE
    LET split == SplitSentences(text)
        sentences == NonEmpty([k \in 1..Len(split) |-> Trim(split[k])])
    IN  IF Len(sentences) = 0 THEN <<Trim(text)>>
        ELSE SplitTooLong(
               NonEmpty(GreedyMerge(sentences, 1, <<>>, <<>>, maxChunkLength)),
               maxChunkLength)

\* ----------------------------------------------------------------- inputs
\* Base64 strings a client may put in a user_audio_chunk message: an absent
\* or empty chunk, a chunk of 500 bytes (padded with '=') and a chunk of 1002
\* bytes.
EmptyChunk == <<>>
MediumChunk == [k \in 1..668 |-> IF k = 668 THEN Pad ELSE (k * 5) % 64]
LargeChunk == [k \in 1..1336 |-> (k * 7) % 64]
ChunkInputs == {EmptyChunk, MediumChunk, LargeChunk}

\* Texts the transcription service may return.
Transcripts == {"hello"}

\* Replies the generation service may stream: the empty reply, "Hi." (one
\* segment) and a reply of three sentences (three segments).
ReplyEmpty == <<>>
ReplyShort == <<"H", "i", ".">>
ReplyLong ==
  <<"S", "u", "r", "e", ",", " ", "I", " ", "c", "a", "n", " ", "h", "e",
    "l", "p", " ", "w", "i", "t", "h", " ", "t", "h", "a", "t", ".", " ",
    "W", "h", "a", "t", " ", "c", "i", "t", "y", " ", "a", "r", "e", " ",
    "y", "o", "u", " ", "i", "n", " ", "r", "i", "g", "h", "t", " ", "n",
    "o", "w", "?", " ", "T", "e", "l", "l", " ", "m", "e", " ", "a", "n",
    "d", " ", "I", " ", "w", "i", "l", "l", " ", "c", "h", "e", "c", "k",
    ".">>
Replies == {ReplyEmpty, ReplyShort, ReplyLong}

\* createOptimalTTSChunks(finalResponse) for each reply, evaluated once.
ReplyChunks ==
  [text \in Replies |-> createOptimalTTSChunks(text, DefaultMaxChunkLength)]

\* The audio the synthesis service returns for an input text: a stand-in that
\* tells the segments of a reply apart.
SpeechAudio(input) == <<255, Len(input), 1>>

\* error.message of the exceptions a provider call or file write may throw.
ErrorMessages == {"ETIMEDOUT"}

\* ------------------------------------------------------------------- state
VARIABLES
  audioChunks,       \* let audioChunks: string[]
  inProgress,        \* let inProgress
  currentSessionId,  \* let currentSessionId: string | null
  uuidCount,         \* uuid() calls so far; call n returns the fresh id n
  closed,            \* the connection's 'close' event has been emitted
  runs,              \* the executions of the user_audio_end handler that
                     \* reached the pipeline, in start order: the handler's
                     \* locals and the await it is suspended at ("done"
                     \* once it has returned); the finished ones are kept
                     \* until the next session starts
  sent,              \* the messages given to ws.send, in order, each with
                     \* the fileId of the execution that sent it; kept as
                     \* long as that execution is in runs (ws.send on a
                     \* closed socket returns without throwing)
  recvLog,           \* the chunk fields of the user_audio_chunk messages
                     \* received since the last user_audio_start message
  event              \* the event handled last: its type, and the phase the
                     \* session was in and the number of chunks buffered
                     \* when it arrived

vars == <<event, inProgress, currentSessionId, uuidCount, closed,
          audioChunks, runs, sent, recvLog>>

\* A call of the chunker on its own, outside a connection.
VARIABLES
  chunkerText,       \* the argument text
  chunkerMax,        \* the argument maxChunkLength
  chunkerOut,        \* the array returned, <<>> before the call returns
  chunkerPc          \* "call" before the call, "returned" after it

chunkerVars == <<chunkerText, chunkerMax, chunkerOut, chunkerPc>>

\* A call of splitLongChunk on its own, iteration by iteration.
VARIABLES
  splitRemaining,    \* let remaining
  splitChunks,       \* const chunks
  splitMaxLength,    \* the argument maxLength
  splitPc            \* "loop" at the while test, "returned" after the return

splitVars == <<splitRemaining, splitChunks, splitMaxLength, splitPc>>

\* The playback queue of the client (usePlayer).
VARIABLES
  isPlaying,         \* isPlayingRef.current
  audioQueue,        \* audioQueueRef.current: the segments waiting, by the
                     \* number of the queueAudio call that brought them
  currentSource,     \* currentSourceRef.current: Null, or the segment the
                     \* referenced source node plays
  audioContext,      \* audioContextRef.current: "none" or "created"
  stage,             \* for each segment, where the processNextAudio call
                     \* that shifted it stands: "none" (not shifted),
                     \* "resume" and "decode" (suspended at that await),
                     \* "playing" (source started), "stopped" (source
                     \* stopped, ended event not yet delivered), "done"
                     \* (ended event delivered), "failed" (caught)
  signals,           \* the onPlaybackStart ("start") and onPlaybackEnd
                     \* ("end") calls made, in order
  played,            \* the segments whose source was started, in order
  enqueued,          \* queueAudio calls so far
  stopMark,          \* value of enqueued at the last stopPlayback call,
                     \* NoStop before the first
  playerEvent        \* the call or callback run last

playerVars == <<isPlaying, audioQueue, currentSource, audioContext, stage,
                signals, played, enqueued, stopMark, playerEvent>>

\* The recording side of the client (VoiceAgent).
VARIABLES
  connectionStatus,  \* React state connectionStatus
  isRecording,       \* React state isRecording
  canRecord,         \* React state canRecord
  recordingStatus,   \* React state recordingStatus
  statusMessage,     \* React state statusMessage (without its emoji)
  wsReadyState,      \* wsRef.current?.readyState, "none" with wsRef null
  recorders,         \* the MediaRecorder objects created so far, each by
                     \* its state: "inactive" or "recording"
  mediaRecorderRef,  \* mediaRecorderRef.current: Null or an index of
                     \* recorders
  analyserRef,       \* analyserRef.current is set
  animationFrame,    \* animationFrameRef.current: Null or a pending frame
  volumeTimeout,     \* volumeTimeoutRef.current: Null or a pending timer
  pendingStarts,     \* the startRecording calls suspended at
                     \* `await initAudio()`, each with the state values its
                     \* render closed over
  outbox,            \* the messages given to ws.send, in order
  silentFor,         \* how long (ms, up to SILENCE_DURATION) the running
                     \* recording has heard nothing above the threshold
  clientEvent,       \* the handler run last
  closing,           \* a socket closed by disconnect() has its close event
                     \* pending
  slices,            \* dataavailable events with data so far; slice n is
                     \* the blob of the n-th
  reading,           \* the slices a FileReader is reading, each with the
                     \* recording it was captured in
  flushing,          \* the recorders stopped whose last dataavailable event
                     \* is pending, each with the recording it ends
  recorderTake,      \* for each recorder, the recording its last start()
                     \* began (0: never started)
  recordingNo        \* recordings begun so far (setIsRecording(true) calls)

\* What the recorders have captured and not yet sent.
captureVars == <<slices, reading, flushing, recorderTake, recordingNo>>

clientVars == <<connectionStatus, isRecording, canRecord, recordingStatus,
                statusMessage, wsReadyState, recorders, mediaRecorderRef,
                analyserRef, animationFrame, volumeTimeout, pendingStarts,
                outbox, silentFor, clientEvent, closing, captureVars>>

\* The connection between one client and its server session.
VARIABLES
  delivered,         \* how many messages of outbox the server's message
                     \* handler has been called with
  inbox              \* the types of the messages the server has sent and the
                     \* client's onmessage has not been called with yet

linkVars == <<delivered, inbox>>

\* The state outside the server process, which no handler of it touches.
offServer == <<chunkerVars, splitVars, playerVars, clientVars, linkVars>>

\* The state a chunker call leaves alone.
offChunker == <<vars, splitVars, playerVars, clientVars, linkVars>>

\* The state the playback queue leaves alone when called on its own.
offPlayer == <<vars, chunkerVars, splitVars, clientVars, linkVars>>

\* The state the client's recording side and its player leave alone.
offClient == <<vars, chunkerVars, splitVars, linkVars>>

\* The state a splitLongChunk call leaves alone.
offSplit == <<vars, chunkerVars, playerVars, clientVars, linkVars>>

allVars == <<vars, chunkerVars, splitVars, playerVars, clientVars, linkVars>>

session == <<audioChunks, inProgress, currentSessionId>>

Init ==
  /\ audioChunks = <<>>
  /\ inProgress = FALSE
  /\ currentSessionId = Null
  /\ uuidCount = 0
  /\ closed = FALSE
  /\ runs = <<>>
  /\ sent = <<>>
  /\ recvLog = <<>>
  /\ event = [type |-> "connection", phase |-> "Idle", buffered |-> 0]

\* The states of the session state machine, read off the session variables.
Phase ==
  IF inProgress THEN "Processing"
  ELSE IF currentSessionId # Null THEN "Capturing"
  ELSE "Idle"

Event(type) ==
  [type |-> type, phase |-> Phase, buffered |-> Len(audioChunks)]

\* ------------------------------------------------------ message handlers
\* The start guard left out.
StartNeverIgnored == FALSE

\* The start guard also refusing a start while a session is capturing.
StartIgnoredWhileActive == inProgress \/ currentSessionId # Null

\* if (inProgress) return;  -- the guard of the user_audio_start handler
StartIgnored == inProgress

\* An execution of the end handler that has not returned yet.
InFlight(run) == run.pc # "done"

\* A message sent by an execution that has not returned yet.
SentInFlight(m) ==
  \E k \in 1..Len(runs) : InFlight(runs[k]) /\ runs[k].fileId = m.run

\* data.type === 'user_audio_start'
RecvStartBody ==
  /\ ~closed
  /\ event' = Event("user_audio_start")
  /\ recvLog' = <<>>
  /\ IF StartIgnored
     THEN /\ UNCHANGED <<session, uuidCount>>
          /\ UNCHANGED <<runs, sent>>
     ELSE /\ uuidCount < MaxStarts
          /\ uuidCount' = uuidCount + 1
          /\ currentSessionId' = uuidCount + 1
          /\ audioChunks' = <<>>
          /\ inProgress' = FALSE
          /\ runs' = SelectSeq(runs, InFlight)
          /\ sent' = SelectSeq(sent, SentInFlight)
  /\ UNCHANGED closed

\* A user_audio_start message arrives.
RecvStart == RecvStartBody /\ UNCHANGED offServer

\* The session guard left out.
NoSessionUnchecked == FALSE

\* if (!currentSessionId) return;  -- the guard of the chunk and end handlers
NoSession == currentSessionId = Null

\* unshift in place of push
UnshiftChunk(list, c) == <<c>> \o list

\* audioChunks.push(data.chunk)
PushChunk(list, c) == Append(list, c)

\* data.type === 'user_audio_chunk'
RecvChunkBody(c) ==
  /\ ~closed
  /\ Len(recvLog) < MaxChunks
  /\ Len(audioChunks) < MaxChunks
  /\ event' = Event("user_audio_chunk")
  /\ recvLog' = Append(recvLog, c)
  /\ audioChunks' = IF ~NoSession /\ Len(c) > 0
                    THEN PushChunk(audioChunks, c) ELSE audioChunks
  /\ UNCHANGED <<inProgress, currentSessionId, uuidCount, closed, runs, sent>>

\* A user_audio_chunk message arrives.
RecvChunk(c) == RecvChunkBody(c) /\ UNCHANGED offServer

\* Buffer.concat(audioChunks.map((chunk) => Buffer.from(chunk, 'base64')))
CompleteBuffer(list) == BufferConcat(DecodeAll(list))

\* The threshold with a digit lost.
TooSmallBelow100(buffer) == Len(buffer) < 100

\* if (completeBuffer.length < 1000)
TooSmall(buffer) == Len(buffer) < MinBufferBytes

\* The end guard left out.
EndNeverIgnored == FALSE

\* if (inProgress) return;  -- the guard of the user_audio_end handler
EndIgnored == inProgress

\* The handler's locals when it suspends at `await fsPromises.writeFile`.
NewRun(fileId, completeBuffer) ==
  [pc |-> "writeFile", fileId |-> fileId, completeBuffer |-> completeBuffer,
   file |-> <<>>, transcript |-> "", finalResponse |-> <<>>,
   stream |-> <<>>, chunks |-> <<>>, i |-> 0, tts |-> <<>>,
   calls |-> <<"writeFile">>, ttsInputs |-> <<>>, thrown |-> ""]

\* data.type === 'user_audio_end', up to its first await
RecvEndBody ==
  /\ ~closed
  /\ event' = Event("user_audio_end")
  /\ IF NoSession \/ EndIgnored
     THEN UNCHANGED <<session, runs>>
     ELSE IF Len(audioChunks) = 0
     THEN /\ inProgress' = FALSE
          /\ currentSessionId' = Null
          /\ UNCHANGED <<audioChunks, runs>>
     ELSE IF TooSmall(CompleteBuffer(audioChunks))
     THEN /\ audioChunks' = <<>>
          /\ inProgress' = FALSE
          /\ currentSessionId' = Null
          /\ UNCHANGED runs
     ELSE /\ inProgress' = TRUE
          /\ runs' = Append(runs, NewRun(currentSessionId,
                                         CompleteBuffer(audioChunks)))
          /\ UNCHANGED <<audioChunks, currentSessionId>>
  /\ UNCHANGED <<uuidCount, closed, sent, recvLog>>

\* A user_audio_end message arrives.
RecvEnd == RecvEndBody /\ UNCHANGED offServer

\* The close handler without `audioChunks = []`.
CloseKeepsBuffer ==
  /\ ~closed
  /\ event' = Event("close")
  /\ closed' = TRUE
  /\ inProgress' = FALSE
  /\ currentSessionId' = Null
  /\ UNCHANGED <<audioChunks, uuidCount, runs, sent, recvLog>>
  /\ UNCHANGED offServer

\* ws.on('close')
Close ==
  /\ ~closed
  /\ event' = Event("close")
  /\ closed' = TRUE
  /\ audioChunks' = <<>>
  /\ inProgress' = FALSE
  /\ currentSessionId' = Null
  /\ UNCHANGED <<uuidCount, runs, sent, recvLog>>
  /\ UNCHANGED offServer

\* ------------------------------------------------------------ turn pipeline
\* The finally block without `inProgress = false`.
FinallyKeepsFlag ==
  /\ audioChunks' = <<>>
  /\ currentSessionId' = Null
  /\ UNCHANGED inProgress

\* The finally block of the user_audio_end handler.
Finally ==
  /\ audioChunks' = <<>>
  /\ inProgress' = FALSE
  /\ currentSessionId' = Null

\* Run r of the handler is suspended at the await named by pc.
Suspended(r, pc) == r \in 1..Len(runs) /\ runs[r].pc = pc

\* The handler returns: its buffers are released, what it did is kept.
Returned(run) ==
  [run EXCEPT !.pc = "done", !.completeBuffer = <<>>, !.file = <<>>]

\* The flag raised on every segment.
IsLastAlways(i, n) == TRUE

\* const isLast = i === chunks.length - 1  (i is 0-based)
IsLast(i, n) == i = n - 1

\* The ai_audio message of segment i of run r, carrying the audio as base64.
AiAudio(fileId, audioBuffer, isLast) ==
  [type |-> "ai_audio", chunk |-> Base64Encode(audioBuffer), done |-> isLast,
   run |-> fileId]

\* The catch block sending a fixed text in place of error.message.
ErrorMessageFixed(fileId, message) ==
  [type |-> "error", message |-> "Internal error", run |-> fileId]

\* The error message of the catch block.
ErrorMessage(fileId, message) ==
  [type |-> "error", message |-> message, run |-> fileId]

\* The handler's locals when it suspends at `await openai.audio.speech.create`
\* for chunks[i] (i is 0-based).
RequestSpeech(run, i) ==
  [run EXCEPT !.pc = "speech", !.i = i,
              !.calls = Append(@, "speech"),
              !.ttsInputs = Append(@, run.chunks[i + 1])]

\* await fsPromises.writeFile(filePath, completeBuffer) returns;
\* transcribe(filePath) is called.
WriteFileResolved(r) ==
  /\ Suspended(r, "writeFile")
  /\ event' = Event("resolved")
  /\ runs' = [runs EXCEPT ![r] = [@ EXCEPT !.pc = "transcribe",
                                          !.file = runs[r].completeBuffer,
                                          !.calls = Append(@, "transcribe")]]
  /\ UNCHANGED <<session, uuidCount, closed, sent, recvLog>>
  /\ UNCHANGED offServer

\* await transcribe(filePath) returns; chat.completions.create is called.
TranscribeResolved(r, text) ==
  /\ Suspended(r, "transcribe")
  /\ event' = Event("resolved")
  /\ runs' = [runs EXCEPT ![r] = [@ EXCEPT !.pc = "create",
                                          !.transcript = text,
                                          !.calls = Append(@, "create")]]
  /\ UNCHANGED <<session, uuidCount, closed, sent, recvLog>>
  /\ UNCHANGED offServer

\* await openai.chat.completions.create returns the stream of the reply.
CreateResolved(r, reply) ==
  /\ Suspended(r, "create")
  /\ event' = Event("resolved")
  /\ runs' = [runs EXCEPT ![r] = [@ EXCEPT !.pc = "stream", !.stream = reply]]
  /\ UNCHANGED <<session, uuidCount, closed, sent, recvLog>>
  /\ UNCHANGED offServer

\* for await (const chunk of chatStream): finalResponse += delta, for a
\* fragment of n characters.
StreamDelta(r, n) ==
  /\ Suspended(r, "stream")
  /\ n \in 1..Len(runs[r].stream)
  /\ event' = Event("resolved")
  /\ runs' = [runs EXCEPT ![r] =
                [@ EXCEPT !.finalResponse = @ \o SubSeq(runs[r].stream, 1, n),
                          !.stream = SubSeq(@, n + 1, Len(@))]]
  /\ UNCHANGED <<session, uuidCount, closed, sent, recvLog>>
  /\ UNCHANGED offServer

\* The stream ends: the reply is chunked and the TTS loop starts, or, with
\* no chunk, the try block completes.
StreamEnd(r) ==
  /\ Suspended(r, "stream")
  /\ runs[r].stream = <<>>
  /\ event' = Event("resolved")
  /\ LET chunks == ReplyChunks[runs[r].finalResponse]
         run == [runs[r] EXCEPT !.chunks = chunks]
     IN  IF 0 < Len(chunks)
         THEN /\ runs' = [runs EXCEPT ![r] = RequestSpeech(run, 0)]
              /\ UNCHANGED session
         ELSE /\ runs' = [runs EXCEPT ![r] = Returned(run)]
              /\ Finally
  /\ UNCHANGED <<uuidCount, closed, sent, recvLog>>
  /\ UNCHANGED offServer

\* await openai.audio.speech.create returns; tts.arrayBuffer() is awaited.
SpeechResolved(r) ==
  /\ Suspended(r, "speech")
  /\ event' = Event("resolved")
  /\ runs' = [runs EXCEPT ![r] =
                [@ EXCEPT !.pc = "arrayBuffer",
                          !.tts = SpeechAudio(runs[r].chunks[runs[r].i + 1])]]
  /\ UNCHANGED <<session, uuidCount, closed, sent, recvLog>>
  /\ UNCHANGED offServer

\* The loop stepping by two.
SkipSegment(i) == i + 2

\* i++ of the TTS loop
NextSegment(i) == i + 1

\* await tts.arrayBuffer() returns: the segment is sent, then the next one
\* is requested or the try block completes.
ArrayBufferResolvedBody(r) ==
  /\ Suspended(r, "arrayBuffer")
  /\ event' = Event("resolved")
  /\ LET run == runs[r]
         i == NextSegment(run.i)
     IN  /\ sent' = Append(sent, AiAudio(run.fileId, run.tts,
                                         IsLast(run.i, Len(run.chunks))))
         /\ IF i < Len(run.chunks)
            THEN /\ runs' = [runs EXCEPT ![r] = RequestSpeech(run, i)]
                 /\ UNCHANGED session
            ELSE /\ runs' = [runs EXCEPT ![r] =
                                Returned([run EXCEPT !.i = i])]
                 /\ Finally
  /\ UNCHANGED <<uuidCount, closed, recvLog>>

\* The arrayBuffer() call of run r settles.
ArrayBufferResolved(r) == ArrayBufferResolvedBody(r) /\ UNCHANGED offServer

\* The awaited call of run r throws: catch sends the error, finally resets.
RejectedBody(r, message) ==
  /\ r \in 1..Len(runs)
  /\ runs[r].pc # "done"
  /\ event' = Event("rejected")
  /\ sent' = Append(sent, ErrorMessage(runs[r].fileId, message))
  /\ runs' = [runs EXCEPT ![r] = Returned([@ EXCEPT !.thrown = message])]
  /\ Finally
  /\ UNCHANGED <<uuidCount, closed, recvLog>>

\* An awaited call of run r throws.
Rejected(r, message) == RejectedBody(r, message) /\ UNCHANGED offServer

\* The fragments the stream of run r may deliver next: the whole rest of the
\* reply, or its first DeltaLen characters.
DeltaSizes(r) == {Min(DeltaLen, Len(runs[r].stream)), Len(runs[r].stream)}

\* An awaited call of some execution settles.
Settle ==
  \/ \E r \in 1..Len(runs) : WriteFileResolved(r)
  \/ \E r \in 1..Len(runs), text \in Transcripts : TranscribeResolved(r, text)
  \/ \E r \in 1..Len(runs), reply \in Replies : CreateResolved(r, reply)
  \/ \E r \in 1..Len(runs) : \E n \in DeltaSizes(r) : StreamDelta(r, n)
  \/ \E r \in 1..Len(runs) : StreamEnd(r)
  \/ \E r \in 1..Len(runs) : SpeechResolved(r)
  \/ \E r \in 1..Len(runs) : ArrayBufferResolved(r)
  \/ \E r \in 1..Len(runs), message \in ErrorMessages : Rejected(r, message)

Next ==
  \/ RecvStart
  \/ \E c \in ChunkInputs : RecvChunk(c)
  \/ RecvEnd
  \/ Close
  \/ Settle

\* No chunker call under way.
ChunkerIdle ==
  /\ chunkerText = <<>>
  /\ chunkerMax = DefaultMaxChunkLength
  /\ chunkerOut = <<>>
  /\ chunkerPc = "returned"

\* No splitLongChunk call under way.
SplitIdle ==
  /\ splitRemaining = <<>>
  /\ splitChunks = <<>>
  /\ splitMaxLength = DefaultMaxChunkLength
  /\ splitPc = "returned"

\* usePlayer() as mounted: nothing queued, nothing playing.
PlayerInit ==
  /\ isPlaying = FALSE
  /\ audioQueue = <<>>
  /\ currentSource = Null
  /\ audioContext = "none"
  /\ stage = [id \in 1..MaxSegments |-> "none"]
  /\ signals = <<>>
  /\ played = <<>>
  /\ enqueued = 0
  /\ stopMark = NoStop
  /\ playerEvent = [type |-> "mount", chunk |-> Null]

\* VoiceAgent as mounted: not connected, not recording, no microphone yet.
ClientInit ==
  /\ connectionStatus = "disconnected"
  /\ isRecording = FALSE
  /\ canRecord = TRUE
  /\ recordingStatus = "idle"
  /\ statusMessage = "Ready to connect"
  /\ wsReadyState = "none"
  /\ recorders = <<>>
  /\ mediaRecorderRef = Null
  /\ analyserRef = FALSE
  /\ animationFrame = Null
  /\ volumeTimeout = Null
  /\ pendingStarts = <<>>
  /\ outbox = <<>>
  /\ silentFor = 0
  /\ clientEvent = "mount"
  /\ closing = FALSE
  /\ slices = 0
  /\ reading = {}
  /\ flushing = {}
  /\ recorderTake = <<>>
  /\ recordingNo = 0

\* Nothing in flight between a client and the server.
LinkIdle ==
  /\ delivered = 0
  /\ inbox = <<>>

\* A new connection, and nothing else going on.
ServerInit ==
  Init /\ ChunkerIdle /\ SplitIdle /\ PlayerInit /\ ClientInit /\ LinkIdle

Spec == ServerInit /\ [][Next]_allVars

\* Every provider call and file write eventually returns or throws.
LiveSpec == Spec /\ WF_vars(Settle)

\* ------------------------------------------------- the chunker on its own
\* The characters of the enumerated texts: a lower-case and an upper-case
\* letter, the comma, the space, a sentence terminator and a white space
\* character that is not the space.
Alphabet == {"a", "A", ",", " ", ".", VerticalTab}

\* Every text of at most MaxTextLen characters of the alphabet.
ShortTexts == UNION {[1..n -> Alphabet] : n \in 0..MaxTextLen}

\* Fifty letters, then ", " and a last word: the comma sits at index 50.
CommaAtMax ==
  [k \in 1..55 |-> IF k <= 50 THEN "a"
                   ELSE IF k = 51 THEN ","
                   ELSE IF k = 52 THEN " " ELSE "b"]

\* Texts chunked with the default maximum length.
DefaultTexts == {ReplyEmpty, ReplyShort, ReplyLong, CommaAtMax}

\* The calls explored: the short texts with every maximum length up to
\* MaxChunkLen, and the longer texts with maxChunkLength left to its default.
ChunkerInputs ==
  (ShortTexts \X (1..MaxChunkLen)) \cup (DefaultTexts \X {DefaultMaxChunkLength})

\* createOptimalTTSChunks is about to be called with some text and maximum.
ChunkerCalled ==
  /\ chunkerPc = "call"
  /\ \E input \in ChunkerInputs :
       chunkerText = input[1] /\ chunkerMax = input[2]
  /\ chunkerOut = <<>>

\* createOptimalTTSChunks(text, maxChunkLength) returns.
ChunkerReturns ==
  /\ chunkerPc = "call"
  /\ chunkerOut' = createOptimalTTSChunks(chunkerText, chunkerMax)
  /\ chunkerPc' = "returned"
  /\ UNCHANGED <<chunkerText, chunkerMax, offChunker>>

ChunkerInit ==
  Init /\ SplitIdle /\ PlayerInit /\ ClientInit /\ LinkIdle /\ ChunkerCalled

ChunkerSpec == ChunkerInit /\ [][ChunkerReturns]_allVars

\* ------------------------------------------- splitLongChunk on its own
\* A text holding every separator: "ab, cd and ef or gh but ij - kl mn".
SeparatorText ==
  <<"a", "b", ",", " ", "c", "d", " ", "a", "n", "d", " ", "e", "f", " ",
    "o", "r", " ", "g", "h", " ", "b", "u", "t", " ", "i", "j", " ", "-",
    " ", "k", "l", " ", "m", "n">>

\* Two hundred letters without a space or a terminator.
HardCutText == [k \in 1..200 |-> "a"]

\* The calls explored.  createOptimalTTSChunks passes splitLongChunk a trimmed
\* chunk longer than the maximum: every such short text with every maximum
\* up to MaxChunkLen, the separator text with every maximum below its
\* length, and the text without spaces with the default maximum.
SplitInputs ==
  {input \in ShortTexts \X (1..MaxChunkLen) :
     Len(input[1]) > input[2] /\ Trim(input[1]) = input[1]}
    \cup ({SeparatorText} \X (1..(Len(SeparatorText) - 1)))
    \cup {<<HardCutText, DefaultMaxChunkLength>>}

\* splitLongChunk(text, maxLength) has been called and stands at its loop.
SplitCalled ==
  /\ splitPc = "loop"
  /\ \E input \in SplitInputs :
       splitRemaining = input[1] /\ splitMaxLength = input[2]
  /\ splitChunks = <<>>

\* while (remaining.length > maxLength) { ... }: one iteration.
SplitIteration ==
  /\ splitPc = "loop"
  /\ Len(splitRemaining) > splitMaxLength
  /\ splitChunks' = Append(splitChunks,
                           SplitHead(splitRemaining, splitMaxLength))
  /\ splitRemaining' = SplitRest(splitRemaining, splitMaxLength)
  /\ UNCHANGED <<splitMaxLength, splitPc, offSplit>>

\* The loop ends: the rest, when not empty, is pushed and chunks returned.
SplitReturns ==
  /\ splitPc = "loop"
  /\ Len(splitRemaining) <= splitMaxLength
  /\ splitChunks' = IF Len(splitRemaining) > 0
                    THEN Append(splitChunks, splitRemaining) ELSE splitChunks
  /\ splitPc' = "returned"
  /\ UNCHANGED <<splitRemaining, splitMaxLength, offSplit>>

SplitNext == SplitIteration \/ SplitReturns

SplitInit ==
  Init /\ ChunkerIdle /\ PlayerInit /\ ClientInit /\ LinkIdle /\ SplitCalled

SplitSpec == SplitInit /\ [][SplitNext]_allVars

\* ------------------------------------------------ playback queue (usePlayer)
\* The refs and the signal log as one record, for the handlers that change
\* them in several statements.
Player ==
  [isPlaying |-> isPlaying, audioQueue |-> audioQueue,
   audioContext |-> audioContext, stage |-> stage, signals |-> signals]

\* The handler returns (or suspends) leaving these values.
SetPlayer(p) ==
  /\ isPlaying' = p.isPlaying
  /\ audioQueue' = p.audioQueue
  /\ audioContext' = p.audioContext
  /\ stage' = p.stage
  /\ signals' = p.signals

PlayerEvent(type, chunk) == [type |-> type, chunk |-> chunk]

\* The newest segment taken in place of the oldest.
LastChunk(q) == q[Len(q)]

\* The element audioQueueRef.current.shift() returns.
NextChunk(q) == Head(q)

\* processNextAudio() up to its first real suspension.  With the queue empty
\* it marks the player idle and signals the end.  Otherwise it shifts the
\* next chunk and awaits initAudioContext(), which creates the context on the
\* first call and awaits resume() when the context starts suspended; with the
\* context in place it goes on to await decodeAudioData.
ProcessNextAudio(p, suspended) ==
  IF Len(p.audioQueue) = 0
  THEN [p EXCEPT !.isPlaying = FALSE, !.signals = Append(@, "end")]
  ELSE LET nextChunk == NextChunk(p.audioQueue)
           create == p.audioContext = "none"
       IN  [p EXCEPT !.audioQueue = Tail(@),
                     !.audioContext = "created",
                     !.stage[nextChunk] =
                        IF create /\ suspended THEN "resume" ELSE "decode"]

\* queueAudio(base64): what it does to the player.
QueueAudioBody(suspended) ==
  /\ enqueued < MaxSegments
  /\ LET base64 == enqueued + 1
         pushed == [Player EXCEPT !.audioQueue = Append(@, base64)]
     IN  /\ enqueued' = base64
         /\ playerEvent' = PlayerEvent("queueAudio", base64)
         /\ IF ~isPlaying
            THEN SetPlayer(ProcessNextAudio(
                   [pushed EXCEPT !.isPlaying = TRUE,
                                  !.signals = Append(@, "start")],
                   suspended))
            ELSE SetPlayer(pushed)
  /\ UNCHANGED <<currentSource, played, stopMark>>

\* queueAudio(base64) called on its own.
QueueAudio(suspended) == QueueAudioBody(suspended) /\ UNCHANGED offPlayer

\* The body of stopPlayback(): what it does to the player.
StopPlaybackBody ==
  /\ playerEvent' = PlayerEvent("stopPlayback", currentSource)
  /\ stopMark' = enqueued
  /\ currentSource' = Null
  /\ audioQueue' = <<>>
  /\ stage' = IF currentSource # Null /\ stage[currentSource] = "playing"
              THEN [stage EXCEPT ![currentSource] = "stopped"]
              ELSE stage
  /\ isPlaying' = FALSE
  /\ signals' = IF isPlaying THEN Append(signals, "end") ELSE signals
  /\ UNCHANGED <<audioContext, played, enqueued>>

\* stopPlayback() called on its own.
StopPlayback == StopPlaybackBody /\ UNCHANGED offPlayer

\* await initAudioContext() returns after resume(): decodeAudioData is called.
ResumeResolvedBody(id) ==
  /\ stage[id] = "resume"
  /\ playerEvent' = PlayerEvent("resumed", id)
  /\ stage' = [stage EXCEPT ![id] = "decode"]
  /\ UNCHANGED <<isPlaying, audioQueue, currentSource, audioContext, signals,
                 played, enqueued, stopMark>>

ResumeResolved(id) == ResumeResolvedBody(id) /\ UNCHANGED offPlayer

\* await decodeAudioData returns: the source is created, referenced and
\* started.
DecodeResolvedBody(id) ==
  /\ stage[id] = "decode"
  /\ playerEvent' = PlayerEvent("decoded", id)
  /\ currentSource' = id
  /\ stage' = [stage EXCEPT ![id] = "playing"]
  /\ played' = Append(played, id)
  /\ UNCHANGED <<isPlaying, audioQueue, audioContext, signals, enqueued,
                 stopMark>>

DecodeResolved(id) == DecodeResolvedBody(id) /\ UNCHANGED offPlayer

\* The catch block without its processNextAudio() call.
AfterFailureStall(p, suspended) == p

\* catch (error) { processNextAudio(); }
AfterFailure(p, suspended) == ProcessNextAudio(p, suspended)

\* resume(), atob or decodeAudioData throws for the chunk: the catch block.
DecodeRejectedBody(id, suspended) ==
  /\ stage[id] \in {"resume", "decode"}
  /\ playerEvent' = PlayerEvent("failed", id)
  /\ SetPlayer(AfterFailure([Player EXCEPT !.stage[id] = "failed"],
                            suspended))
  /\ UNCHANGED <<currentSource, played, enqueued, stopMark>>

DecodeRejected(id, suspended) ==
  DecodeRejectedBody(id, suspended) /\ UNCHANGED offPlayer

\* source.onended: the buffer has played to its end, or the source was
\* stopped.
SourceEndedBody(id, suspended) ==
  /\ stage[id] \in {"playing", "stopped"}
  /\ playerEvent' = PlayerEvent("ended", id)
  /\ currentSource' = Null
  /\ SetPlayer(ProcessNextAudio([Player EXCEPT !.stage[id] = "done"],
                                suspended))
  /\ UNCHANGED <<played, enqueued, stopMark>>

SourceEnded(id, suspended) ==
  SourceEndedBody(id, suspended) /\ UNCHANGED offPlayer

\* An awaited call of the player settles, or a started source ends.
PlayerSettle ==
  \/ \E id \in 1..MaxSegments : ResumeResolved(id)
  \/ \E id \in 1..MaxSegments : DecodeResolved(id)
  \/ \E id \in 1..MaxSegments, suspended \in BOOLEAN :
       DecodeRejected(id, suspended)
  \/ \E id \in 1..MaxSegments, suspended \in BOOLEAN :
       SourceEnded(id, suspended)

PlayerNext ==
  \/ \E suspended \in BOOLEAN : QueueAudio(suspended)
  \/ StopPlayback
  \/ PlayerSettle

PlayerStart ==
  Init /\ ChunkerIdle /\ SplitIdle /\ ClientInit /\ LinkIdle /\ PlayerInit

PlayerSpec == PlayerStart /\ [][PlayerNext]_allVars

\* Every decode and every playback eventually completes or fails.
PlayerLiveSpec == PlayerSpec /\ WF_allVars(PlayerSettle)

\* ------------------------------------------- recording side (VoiceAgent)
\* The state values a callback created by the current render closes over.
Closure ==
  [isRecording |-> isRecording, canRecord |-> canRecord,
   connectionStatus |-> connectionStatus]

\* Volumes a sample may read, in hundredths: silence and speech.
Volumes == {0, 50}

\* updateVolume(), as created by startVolumeMonitoring of a render whose
\* isRecording is captured.isRecording: what it leaves in animationFrameRef and
\* volumeTimeoutRef (m), reading the given volume.
updateVolume(captured, analyser, volume, m) ==
  IF ~analyser \/ ~captured.isRecording THEN m
  ELSE [animationFrame |-> 1,
        volumeTimeout |->
          IF volume < VOLUME_THRESHOLD
          THEN (IF m.volumeTimeout = Null THEN 1 ELSE m.volumeTimeout)
          ELSE Null]

\* startVolumeMonitoring() of the same render.
startVolumeMonitoring(captured, analyser, volume, m) ==
  IF ~analyser THEN m ELSE updateVolume(captured, analyser, volume, m)

\* stopRecording calling the startVolumeMonitoring of its render (in which
\* isRecording is true) in place of stopVolumeMonitoring.
stopVolumeMonitoringRestarts(m) ==
  startVolumeMonitoring([Closure EXCEPT !.isRecording = TRUE], analyserRef,
                        0, m)

\* stopVolumeMonitoring(): the pending frame and the pending timer are
\* cancelled.
stopVolumeMonitoring(m) == [animationFrame |-> Null, volumeTimeout |-> Null]

\* A message given to ws.send: its type, the slice a user_audio_chunk
\* carries, and the recording it belongs to.
Message(type, chunk, recording) ==
  [type |-> type, chunk |-> chunk, recording |-> recording]

\* if (wsRef.current?.readyState === WebSocket.OPEN) wsRef.current.send(...)
WsSend(box, message) ==
  IF wsReadyState = "open" THEN Append(box, message) ELSE box

\* Whether fewer recordings have been started than explored.
MayRecord == recordingNo < MaxRecordings

\* `if (!success) return;` left out of startRecording.
GoesOnAfterFailure(success) == FALSE

\* const success = await initAudio(); if (!success) return;
ReturnsOnFailure(success) == ~success

\* What onPlaybackStart and onPlaybackEnd, called by the player code run in
\* this step, leave in the React state: the last call decides.
PlaybackCallbacks ==
  LET calls == SubSeq(signals', Len(signals) + 1, Len(signals'))
  IN  IF calls = <<>>
      THEN UNCHANGED <<canRecord, recordingStatus, statusMessage>>
      ELSE IF calls[Len(calls)] = "start"
      THEN /\ recordingStatus' = "playing"
           /\ statusMessage' = "Playing AI response..."
           /\ canRecord' = FALSE
      ELSE /\ recordingStatus' = "idle"
           /\ statusMessage' = "Ready to record"
           /\ canRecord' = TRUE

\* startRecording() from its canRecord check on, run by a call whose render
\* closed over `captured`, with mediaRecorderRef.current = ref among the
\* recorders recs (takes: the recording each of them last recorded).
BeginRecording(captured, ref, recs, takes, analyser, volume) ==
  IF ~captured.canRecord
  THEN /\ statusMessage' = "Please wait for AI response to finish"
       /\ recorders' = recs
       /\ recorderTake' = takes
       /\ UNCHANGED <<isRecording, canRecord, recordingStatus, outbox,
                      animationFrame, volumeTimeout, silentFor, recordingNo,
                      playerVars>>
  ELSE IF captured.connectionStatus # "connected"
  THEN /\ statusMessage' = "Please connect to server first"
       /\ recorders' = recs
       /\ recorderTake' = takes
       /\ UNCHANGED <<isRecording, canRecord, recordingStatus, outbox,
                      animationFrame, volumeTimeout, silentFor, recordingNo,
                      playerVars>>
  ELSE /\ MayRecord
       /\ StopPlaybackBody
       /\ canRecord' = (isPlaying \/ canRecord)
       /\ isRecording' = TRUE
       /\ recordingStatus' = "recording"
       /\ statusMessage' = "Recording... Speak now!"
       /\ recordingNo' = recordingNo + 1
       /\ outbox' = WsSend(outbox, Message("user_audio_start", Null,
                                           recordingNo + 1))
       /\ IF ref # Null /\ recs[ref] = "recording"
          THEN \* start() throws InvalidStateError: the call ends here
               /\ recorders' = recs
               /\ recorderTake' = takes
               /\ UNCHANGED <<animationFrame, volumeTimeout, silentFor>>
          ELSE /\ recorders' = IF ref = Null THEN recs
                               ELSE [recs EXCEPT ![ref] = "recording"]
               /\ recorderTake' = IF ref = Null THEN takes
                                  ELSE [takes EXCEPT ![ref] = recordingNo + 1]
               /\ silentFor' = 0
               /\ LET m == startVolumeMonitoring(
                             captured, analyser, volume,
                             [animationFrame |-> animationFrame,
                              volumeTimeout |-> volumeTimeout])
                  IN  /\ animationFrame' = m.animationFrame
                      /\ volumeTimeout' = m.volumeTimeout

\* The Connect button: connect()
Connect ==
  /\ connectionStatus \notin {"connected", "connecting"}
  /\ clientEvent' = "connect"
  /\ IF wsReadyState = "open"
     THEN UNCHANGED <<connectionStatus, statusMessage, wsReadyState>>
     ELSE /\ connectionStatus' = "connecting"
          /\ statusMessage' = "Connecting to server..."
          /\ wsReadyState' = "connecting"
  /\ UNCHANGED <<isRecording, canRecord, recordingStatus, recorders,
                 mediaRecorderRef, analyserRef, animationFrame, volumeTimeout,
                 pendingStarts, outbox, silentFor, captureVars, closing,
                 playerVars, offClient>>

\* ws.onopen
WsOpen ==
  /\ wsReadyState = "connecting"
  /\ clientEvent' = "open"
  /\ wsReadyState' = "open"
  /\ connectionStatus' = "connected"
  /\ statusMessage' = "Connected to server"
  /\ UNCHANGED <<isRecording, canRecord, recordingStatus, recorders,
                 mediaRecorderRef, analyserRef, animationFrame, volumeTimeout,
                 pendingStarts, outbox, silentFor, captureVars, closing,
                 playerVars, offClient>>

\* ws.onclose: the connection is lost or refused
WsClose ==
  /\ wsReadyState \in {"connecting", "open"}
  /\ clientEvent' = "close"
  /\ wsReadyState' = "closed"
  /\ connectionStatus' = "disconnected"
  /\ statusMessage' = "Disconnected from server"
  /\ UNCHANGED <<isRecording, canRecord, recordingStatus, recorders,
                 mediaRecorderRef, analyserRef, animationFrame, volumeTimeout,
                 pendingStarts, outbox, silentFor, captureVars, closing,
                 playerVars, offClient>>

\* The Disconnect button: disconnect().  The socket is closed and wsRef
\* cleared; the stopRecording it calls is the one of the first render
\* (useCallback with no dependencies), whose isRecording is false: it does
\* nothing.
Disconnect ==
  /\ connectionStatus # "disconnected"
  /\ clientEvent' = "disconnect"
  /\ wsReadyState' = "none"
  /\ closing' = (closing \/ wsReadyState \in {"connecting", "open"})
  /\ UNCHANGED <<connectionStatus, isRecording, canRecord, recordingStatus,
                 statusMessage, recorders, mediaRecorderRef, analyserRef,
                 animationFrame, volumeTimeout, pendingStarts, outbox,
                 silentFor, captureVars, playerVars, offClient>>

\* ws.onclose of the socket disconnect() closed
WsClosed ==
  /\ closing
  /\ clientEvent' = "close"
  /\ closing' = FALSE
  /\ connectionStatus' = "disconnected"
  /\ statusMessage' = "Disconnected from server"
  /\ UNCHANGED <<isRecording, canRecord, recordingStatus, wsReadyState,
                 recorders, mediaRecorderRef, analyserRef, animationFrame,
                 volumeTimeout, pendingStarts, outbox, silentFor, captureVars,
                 playerVars, offClient>>

\* The Start Recording button (enabled when not recording, connected and
\* canRecord): startRecording() of the current render, up to
\* `await initAudio()` when no recorder exists yet.
ClickStart(volume) ==
  /\ ~isRecording /\ connectionStatus = "connected" /\ canRecord
  /\ clientEvent' = "startRecording"
  /\ IF mediaRecorderRef = Null
     THEN /\ Len(recorders) + Len(pendingStarts) < MaxInits
          /\ pendingStarts' = Append(pendingStarts, Closure)
          /\ UNCHANGED <<isRecording, canRecord, recordingStatus,
                         statusMessage, recorders, recorderTake, recordingNo,
                         outbox, animationFrame, volumeTimeout, silentFor,
                         playerVars>>
     ELSE /\ BeginRecording(Closure, mediaRecorderRef, recorders,
                            recorderTake, analyserRef, volume)
          /\ UNCHANGED pendingStarts
  /\ UNCHANGED <<connectionStatus, wsReadyState, mediaRecorderRef,
                 analyserRef, slices, reading, flushing, closing, offClient>>

\* `await initAudio()` of the k-th suspended startRecording call returns.
\* Outcome "recorder": the try block runs to its end, an analyser and a
\* recorder are created and the call goes on.  Outcome "noRecorder": the
\* MediaRecorder constructor throws, after analyserRef.current was assigned.
\* Outcome "denied": getUserMedia or the audio graph throws before that.
\* On both failures the catch block reports and the call returns.
InitAudioResolved(k, outcome, volume) ==
  /\ k \in 1..Len(pendingStarts)
  /\ pendingStarts' = SubSeq(pendingStarts, 1, k - 1)
                        \o SubSeq(pendingStarts, k + 1, Len(pendingStarts))
  /\ clientEvent' = IF outcome = "recorder" THEN "initAudio"
                     ELSE "initAudioFailed"
  /\ LET granted == outcome = "recorder"
         ref == IF granted THEN Len(recorders) + 1 ELSE mediaRecorderRef
         recs == IF granted THEN Append(recorders, "inactive") ELSE recorders
         takes == IF granted THEN Append(recorderTake, 0) ELSE recorderTake
         analyser == outcome # "denied" \/ analyserRef
     IN  /\ mediaRecorderRef' = ref
         /\ analyserRef' = analyser
         /\ IF ReturnsOnFailure(granted)
            THEN /\ statusMessage' = "Failed to access microphone"
                 /\ UNCHANGED <<isRecording, canRecord, recordingStatus,
                                recorders, recorderTake, recordingNo, outbox,
                                animationFrame, volumeTimeout, silentFor,
                                playerVars>>
            ELSE BeginRecording(pendingStarts[k], ref, recs, takes, analyser,
                                volume)
  /\ UNCHANGED <<connectionStatus, wsReadyState, slices, reading, flushing,
                 closing, offClient>>

\* The Stop Recording button (enabled when recording): stopRecording() of
\* the current render, stopVolumeMonitoring() included.  stop() leaves the
\* recorder inactive and queues the dataavailable event of the last slice.
ClickStop ==
  /\ isRecording
  /\ clientEvent' = "stopRecording"
  /\ IF mediaRecorderRef # Null
     THEN /\ recorders' = [recorders EXCEPT ![mediaRecorderRef] = "inactive"]
          /\ flushing' =
               IF recorders[mediaRecorderRef] = "recording"
               THEN flushing \cup
                      {[recorder |-> mediaRecorderRef,
                        recording |-> recorderTake[mediaRecorderRef]]}
               ELSE flushing
          /\ isRecording' = FALSE
          /\ recordingStatus' = "processing"
          /\ statusMessage' = "Processing your speech..."
          /\ outbox' = WsSend(outbox,
                              Message("user_audio_end", Null,
                                      recorderTake[mediaRecorderRef]))
          /\ LET m == stopVolumeMonitoring(
                        [animationFrame |-> animationFrame,
                         volumeTimeout |-> volumeTimeout])
             IN  /\ animationFrame' = m.animationFrame
                 /\ volumeTimeout' = m.volumeTimeout
          /\ silentFor' = 0
     ELSE UNCHANGED <<recorders, flushing, isRecording, recordingStatus,
                      statusMessage, outbox, animationFrame, volumeTimeout,
                      silentFor>>
  /\ UNCHANGED <<connectionStatus, canRecord, wsReadyState, mediaRecorderRef,
                 analyserRef, pendingStarts, slices, reading, recorderTake,
                 recordingNo, closing, playerVars, offClient>>

\* mediaRecorder.ondataavailable while recorder r records (a 100 ms slice
\* with data): a FileReader starts reading the blob.
DataAvailable(r) ==
  /\ r \in 1..Len(recorders)
  /\ recorders[r] = "recording"
  /\ slices < MaxSlices
  /\ clientEvent' = "dataavailable"
  /\ slices' = slices + 1
  /\ reading' = reading \cup
                  {[slice |-> slices + 1, recording |-> recorderTake[r]]}
  /\ UNCHANGED <<connectionStatus, isRecording, canRecord, recordingStatus,
                 statusMessage, wsReadyState, recorders, mediaRecorderRef,
                 analyserRef, animationFrame, volumeTimeout, pendingStarts,
                 outbox, silentFor, flushing, recorderTake, recordingNo,
                 closing, playerVars, offClient>>

\* mediaRecorder.ondataavailable for the slice a stop() flushed, which is
\* read like the others when it holds data and dropped when it is empty.
FlushAvailable(f, nonEmpty) ==
  /\ f \in flushing
  /\ nonEmpty => slices < MaxSlices
  /\ clientEvent' = "dataavailable"
  /\ flushing' = flushing \ {f}
  /\ IF nonEmpty
     THEN /\ slices' = slices + 1
          /\ reading' = reading \cup
                          {[slice |-> slices + 1, recording |-> f.recording]}
     ELSE UNCHANGED <<slices, reading>>
  /\ UNCHANGED <<connectionStatus, isRecording, canRecord, recordingStatus,
                 statusMessage, wsReadyState, recorders, mediaRecorderRef,
                 analyserRef, animationFrame, volumeTimeout, pendingStarts,
                 outbox, silentFor, recorderTake, recordingNo, closing,
                 playerVars, offClient>>

\* reader.onloadend of some FileReader: the slice is sent as base64.
ReaderLoadEnd(s) ==
  /\ s \in reading
  /\ clientEvent' = "loadend"
  /\ reading' = reading \ {s}
  /\ outbox' = WsSend(outbox,
                      Message("user_audio_chunk", s.slice, s.recording))
  /\ UNCHANGED <<connectionStatus, isRecording, canRecord, recordingStatus,
                 statusMessage, wsReadyState, recorders, mediaRecorderRef,
                 analyserRef, animationFrame, volumeTimeout, pendingStarts,
                 silentFor, slices, flushing, recorderTake, recordingNo,
                 closing, playerVars, offClient>>

\* SILENCE_DURATION ms go by in which the recording hears nothing above the
\* threshold, no frame and no silence timer being scheduled that would run
\* within them.
SilenceWindowElapses ==
  /\ isRecording
  /\ mediaRecorderRef # Null
  /\ recorders[mediaRecorderRef] = "recording"
  /\ animationFrame = Null /\ volumeTimeout = Null
  /\ silentFor < SILENCE_DURATION
  /\ clientEvent' = "silence"
  /\ silentFor' = SILENCE_DURATION
  /\ UNCHANGED <<connectionStatus, isRecording, canRecord, recordingStatus,
                 statusMessage, wsReadyState, recorders, mediaRecorderRef,
                 analyserRef, animationFrame, volumeTimeout, pendingStarts,
                 outbox, captureVars, closing, playerVars, offClient>>

\* ws.onmessage for a message of the given type: an ai_audio chunk is queued
\* for playback, an error is shown and re-enables recording.
OnMessageBody(type, suspended) ==
  /\ clientEvent' = type
  /\ IF type = "ai_audio"
     THEN /\ QueueAudioBody(suspended)
          /\ PlaybackCallbacks
     ELSE /\ statusMessage' = "Server error"
          /\ recordingStatus' = "idle"
          /\ canRecord' = TRUE
          /\ UNCHANGED playerVars
  /\ UNCHANGED <<connectionStatus, isRecording, wsReadyState, recorders,
                 mediaRecorderRef, analyserRef, animationFrame, volumeTimeout,
                 pendingStarts, outbox, silentFor, captureVars, closing>>

\* Whether the client has ended an utterance, which is what the server
\* answers with ai_audio or error messages.
HasEndedUtterance ==
  \E k \in 1..Len(outbox) : outbox[k].type = "user_audio_end"

\* A message of the server arrives on the open socket.
ServerMessage(type, suspended) ==
  /\ wsReadyState = "open"
  /\ HasEndedUtterance
  /\ type = "ai_audio" => enqueued < MaxAudio
  /\ OnMessageBody(type, suspended)
  /\ UNCHANGED offClient

\* A callback of the player runs: an awaited call settles or a source ends,
\* and the playback callbacks it makes update the React state.
PlayerCallback ==
  /\ \/ \E id \in 1..MaxSegments : ResumeResolvedBody(id)
     \/ \E id \in 1..MaxSegments : DecodeResolvedBody(id)
     \/ \E id \in 1..MaxSegments, suspended \in BOOLEAN :
          DecodeRejectedBody(id, suspended)
     \/ \E id \in 1..MaxSegments, suspended \in BOOLEAN :
          SourceEndedBody(id, suspended)
  /\ PlaybackCallbacks
  /\ clientEvent' = "player"
  /\ UNCHANGED <<connectionStatus, isRecording, wsReadyState, recorders,
                 mediaRecorderRef, analyserRef, animationFrame, volumeTimeout,
                 pendingStarts, outbox, silentFor, captureVars, closing,
                 offClient>>

ClientNext ==
  \/ Connect
  \/ WsOpen
  \/ WsClose
  \/ Disconnect
  \/ WsClosed
  \/ \E volume \in Volumes : ClickStart(volume)
  \/ \E k \in 1..MaxInits, outcome \in {"recorder", "noRecorder", "denied"},
          volume \in Volumes :
       InitAudioResolved(k, outcome, volume)
  \/ ClickStop
  \/ \E r \in 1..MaxInits : DataAvailable(r)
  \/ \E f \in flushing, nonEmpty \in BOOLEAN : FlushAvailable(f, nonEmpty)
  \/ \E s \in reading : ReaderLoadEnd(s)
  \/ SilenceWindowElapses
  \/ \E type \in {"ai_audio", "error"}, suspended \in BOOLEAN :
       ServerMessage(type, suspended)
  \/ PlayerCallback

ClientStart ==
  Init /\ ChunkerIdle /\ SplitIdle /\ PlayerInit /\ ClientInit /\ LinkIdle

ClientSpec == ClientStart /\ [][ClientNext]_allVars

\* ------------------------------------------- one client and its server
\* One client on one connection that stays open, with the microphone granted
\* and a running audio context; every slice it sends is a chunk of 1002
\* bytes; the transcription is "hello" and the reply "Hi.".

\* The next message of the client is a user_audio_start: ws.on('message').
ServerGetsStart ==
  /\ delivered < Len(outbox)
  /\ outbox[delivered + 1].type = "user_audio_start"
  /\ RecvStartBody
  /\ delivered' = delivered + 1
  /\ UNCHANGED <<inbox, chunkerVars, splitVars, playerVars, clientVars>>

\* The next message of the client is a user_audio_chunk.
ServerGetsChunk ==
  /\ delivered < Len(outbox)
  /\ outbox[delivered + 1].type = "user_audio_chunk"
  /\ RecvChunkBody(LargeChunk)
  /\ delivered' = delivered + 1
  /\ UNCHANGED <<inbox, chunkerVars, splitVars, playerVars, clientVars>>

\* The next message of the client is a user_audio_end.
ServerGetsEnd ==
  /\ delivered < Len(outbox)
  /\ outbox[delivered + 1].type = "user_audio_end"
  /\ RecvEndBody
  /\ delivered' = delivered + 1
  /\ UNCHANGED <<inbox, chunkerVars, splitVars, playerVars, clientVars>>

\* The pipeline of a turn moves on without sending anything.
PipelineStep ==
  \/ \E r \in 1..Len(runs) : WriteFileResolved(r)
  \/ \E r \in 1..Len(runs), text \in Transcripts : TranscribeResolved(r, text)
  \/ \E r \in 1..Len(runs) : CreateResolved(r, ReplyShort)
  \/ \E r \in 1..Len(runs) : StreamDelta(r, Len(runs[r].stream))
  \/ \E r \in 1..Len(runs) : StreamEnd(r)
  \/ \E r \in 1..Len(runs) : SpeechResolved(r)

\* The server sends a segment: ws.send of the ai_audio message.
ServerSendsAudio ==
  /\ \E r \in 1..Len(runs) : ArrayBufferResolvedBody(r)
  /\ inbox' = Append(inbox, "ai_audio")
  /\ UNCHANGED <<delivered, chunkerVars, splitVars, playerVars, clientVars>>

\* An awaited call of a turn throws and the server sends the error message.
ServerSendsError ==
  /\ \E r \in 1..Len(runs), message \in ErrorMessages :
       RejectedBody(r, message)
  /\ inbox' = Append(inbox, "error")
  /\ UNCHANGED <<delivered, chunkerVars, splitVars, playerVars, clientVars>>

\* The client's ws.onmessage is called with the next message of the server.
ClientGetsMessage ==
  /\ inbox # <<>>
  /\ wsReadyState = "open"
  /\ Head(inbox) = "ai_audio" => enqueued < MaxSegments
  /\ OnMessageBody(Head(inbox), FALSE)
  /\ inbox' = Tail(inbox)
  /\ UNCHANGED <<delivered, vars, chunkerVars, splitVars>>

SystemNext ==
  \/ Connect
  \/ WsOpen
  \/ \E volume \in Volumes : ClickStart(volume)
  \/ \E k \in 1..MaxInits, volume \in Volumes :
       InitAudioResolved(k, "recorder", volume)
  \/ ClickStop
  \/ \E r \in 1..MaxInits : DataAvailable(r)
  \/ \E f \in flushing, nonEmpty \in BOOLEAN : FlushAvailable(f, nonEmpty)
  \/ \E s \in reading : ReaderLoadEnd(s)
  \/ PlayerCallback
  \/ ServerGetsStart
  \/ ServerGetsChunk
  \/ ServerGetsEnd
  \/ PipelineStep
  \/ ServerSendsAudio
  \/ ServerSendsError
  \/ ClientGetsMessage

SystemInit ==
  Init /\ ChunkerIdle /\ SplitIdle /\ PlayerInit /\ ClientInit /\ LinkIdle

SystemSpec == SystemInit /\ [][SystemNext]_allVars

\* updateVolume never gets past its isRecording check: startRecording calls
\* the startVolumeMonitoring of its own render, whose isRecording is false,
\* so no frame and no silence timer is ever scheduled.
MonitorInert == animationFrame = Null /\ volumeTimeout = Null

\* ------------------------------------------------------------------ claims
InFlightRuns == {r \in 1..Len(runs) : InFlight(runs[r])}

IdleSession ==
  /\ audioChunks = <<>>
  /\ inProgress = FALSE
  /\ currentSessionId = Null

\* C1: at most one execution of the turn pipeline is in flight on the
\* connection at any time, whatever messages arrive while it runs.
C1_OnePipelineInFlight == Cardinality(InFlightRuns) <= 1

\* An end message has just been handled while a turn was being processed.
C1_Witness ==
  /\ event.type = "user_audio_end"
  /\ event.phase = "Processing"
  /\ Cardinality(InFlightRuns) = 1
  /\ Len(audioChunks) > 0

\* C2: the buffer an execution starts the pipeline with is the concatenation,
\* in arrival order, of the decoded chunks received since the last start
\* message, and a chunk message changes no execution already started.
C2_UtteranceBuffer ==
  [][/\ Len(runs') > Len(runs) =>
          runs'[Len(runs')].completeBuffer = BufferConcat(DecodeAll(recvLog))
     /\ event'.type = "user_audio_chunk" => runs' = runs]_vars

\* A pipeline runs on the 500-byte chunk followed by the 1002-byte chunk.
C2_Witness ==
  \E r \in InFlightRuns :
    /\ recvLog = <<MediumChunk, LargeChunk>>
    /\ runs[r].completeBuffer
         = Base64Decode(MediumChunk) \o Base64Decode(LargeChunk)
    /\ runs[r].file = runs[r].completeBuffer

\* C3: a start message handled while the session is Processing changes
\* neither the session id, the chunk buffer nor the in-progress flag, starts
\* nothing and sends nothing.
C3_StartWhileProcessing ==
  [][(event'.type = "user_audio_start" /\ inProgress) =>
       (session' = session /\ sent' = sent /\ runs' = runs)]_vars

\* A start message has just been handled while a turn was being processed.
C3_Witness ==
  /\ event.type = "user_audio_start"
  /\ event.phase = "Processing"
  /\ inProgress
  /\ Len(audioChunks) > 0

\* C4 as claimed: a start message handled while the session is Capturing
\* keeps the session id and the chunks buffered so far.
C4_StartWhileCapturingNoOp ==
  [][(event'.type = "user_audio_start" /\ Phase = "Capturing") =>
       (currentSessionId' = currentSessionId /\ audioChunks' = audioChunks)]_vars

\* C4 amended: a start message handled while the session is Capturing
\* begins a new session: a session id never used before is allocated and the
\* chunks buffered so far are discarded.
C4_StartWhileCapturingRestarts ==
  [][(event'.type = "user_audio_start" /\ Phase = "Capturing") =>
       /\ currentSessionId' > currentSessionId
       /\ audioChunks' = <<>>
       /\ inProgress' = FALSE]_vars

\* A second start has just been handled while the first session was
\* capturing with two chunks buffered.
C4_Witness ==
  /\ event = [type |-> "user_audio_start", phase |-> "Capturing",
              buffered |-> 2]
  /\ currentSessionId = 2
  /\ audioChunks = <<>>

\* C5: a chunk or end message handled while no session is active changes
\* nothing of the session, starts no pipeline and sends nothing.
C5_NoSessionIgnored ==
  [][(event'.type \in {"user_audio_chunk", "user_audio_end"}
        /\ currentSessionId = Null) =>
       (session' = session /\ sent' = sent /\ runs' = runs)]_vars

\* The 1002-byte chunk has just been handled with no session active.
C5_Witness ==
  /\ event.type = "user_audio_chunk"
  /\ event.phase = "Idle"
  /\ recvLog = <<LargeChunk>>
  /\ IdleSession

\* C6: an end message handled while Capturing with fewer than 1000 decoded
\* bytes buffered (no chunk at all included) starts no pipeline, sends nothing
\* and leaves the session Idle with an empty buffer and no session id.
C6_SmallBufferRejected ==
  [][(/\ event'.type = "user_audio_end"
      /\ Phase = "Capturing"
      /\ Len(BufferConcat(DecodeAll(audioChunks))) < MinBufferBytes) =>
       (runs' = runs /\ sent' = sent /\ IdleSession')]_vars

\* An end message has just been handled while Capturing with the 500-byte
\* chunk buffered.
C6_Witness ==
  /\ event = [type |-> "user_audio_end", phase |-> "Capturing",
              buffered |-> 1]
  /\ recvLog = <<MediumChunk>>
  /\ IdleSession
  /\ runs = <<>>

\* The messages sent by the execution with this fileId.
RunMessages(fileId) == SelectSeq(sent, LAMBDA m : m.run = fileId)

\* C7: when the call an execution awaits throws, the execution calls no
\* further stage and synthesizes no further segment, sends exactly one error
\* message carrying the thrown error's message, and the session is Idle; a
\* finished execution does and sends nothing more.
C7_StageFailure ==
  [][\A r \in 1..Len(runs) :
       /\ (event'.type = "rejected" /\ runs[r].thrown = ""
             /\ runs'[r].thrown # "") =>
            /\ runs'[r].pc = "done"
            /\ runs'[r].calls = runs[r].calls
            /\ runs'[r].ttsInputs = runs[r].ttsInputs
            /\ runs'[r].thrown \in ErrorMessages
            /\ sent' = Append(sent, [type |-> "error",
                                     message |-> runs'[r].thrown,
                                     run |-> runs[r].fileId])
            /\ IdleSession'
       /\ (~InFlight(runs[r]) /\ event'.type # "user_audio_start") =>
            /\ runs'[r] = runs[r]
            /\ RunMessages(runs[r].fileId)' = RunMessages(runs[r].fileId)]_vars

\* The synthesis of the second of three segments has thrown: one ai_audio
\* message and then the error message were sent.
C7_Witness ==
  \E r \in 1..Len(runs) :
    /\ runs[r].thrown # ""
    /\ Len(runs[r].chunks) = 3
    /\ Len(runs[r].ttsInputs) = 2
    /\ Len(sent) = 2
    /\ sent[1].type = "ai_audio"
    /\ sent[2].type = "error"
    /\ IdleSession

\* C8: under LiveSpec (every awaited call settles), a session that is
\* Processing is eventually Idle, with the buffer empty, the session id null
\* and the in-progress flag false, and a start is then accepted.
C8_ProcessingEnds == inProgress ~> (IdleSession /\ ~StartIgnored)

\* A turn has just ended on an open connection and left the session Idle.
C8_Witness ==
  /\ event.type \in {"resolved", "rejected"}
  /\ event.phase = "Processing"
  /\ ~closed
  /\ IdleSession
  /\ \E r \in 1..Len(runs) : runs[r].pc = "done"

\* C9: once the connection has closed the session is Idle, at the close and
\* after every later step of a turn that was running when it closed.
C9_ClosedIsIdle == closed => IdleSession

\* A turn that was running at the close has completed after it, with all
\* three segments sent.
C9_Witness ==
  /\ closed
  /\ event.type = "resolved"
  /\ \E r \in 1..Len(runs) :
       /\ runs[r].pc = "done"
       /\ runs[r].thrown = ""
       /\ Len(runs[r].chunks) = 3
       /\ Len(RunMessages(runs[r].fileId)) = 3

\* The ai_audio messages sent by the execution with this fileId.
AiAudioMessages(fileId) ==
  SelectSeq(sent, LAMBDA m : m.run = fileId /\ m.type = "ai_audio")

\* C10: in every turn the synthesis requests are the segments of the
\* chunker's output (the handler's chunks) in order, the k-th ai_audio
\* message carries the audio of the k-th segment, a request is issued only
\* when every earlier one has been answered and sent, and a turn that
\* completes has sent one message per segment.
C10_OrderedSynthesis ==
  \A r \in 1..Len(runs) :
    LET run == runs[r]
        segments == run.chunks
        msgs == AiAudioMessages(run.fileId)
    IN  /\ Len(run.ttsInputs) <= Len(segments)
        /\ \A k \in 1..Len(run.ttsInputs) : run.ttsInputs[k] = segments[k]
        /\ Len(msgs) <= Len(run.ttsInputs)
        /\ Len(run.ttsInputs) <= Len(msgs) + 1
        /\ \A k \in 1..Len(msgs) :
             Base64Decode(msgs[k].chunk) = SpeechAudio(segments[k])
        /\ (run.pc = "done" /\ run.thrown = "" /\ run.stream = <<>>) =>
             Len(msgs) = Len(segments)

\* A turn of three segments has completed on an open connection.
C10_Witness ==
  /\ ~closed
  /\ \E r \in 1..Len(runs) :
       /\ runs[r].pc = "done"
       /\ runs[r].thrown = ""
       /\ Len(runs[r].ttsInputs) = 3
       /\ Len(AiAudioMessages(runs[r].fileId)) = 3

\* C11: among the messages of a turn, an ai_audio message carrying done=true
\* is the message of the last segment and the last message of the turn, an
\* error message is the last message of the turn, and a turn of n >= 1
\* segments that has completed without error has sent n ai_audio messages of
\* which the last, and only the last, carries done=true.
C11_DoneFlagsLast ==
  \A r \in 1..Len(runs) :
    LET run == runs[r]
        msgs == RunMessages(run.fileId)
        n == Len(run.chunks)
    IN  /\ \A k \in 1..Len(msgs) :
             /\ (msgs[k].type = "ai_audio" /\ msgs[k].done) =>
                  (k = Len(msgs) /\ k = n)
             /\ msgs[k].type = "error" => k = Len(msgs)
        /\ (run.pc = "done" /\ run.thrown = "" /\ n >= 1) =>
             /\ Len(msgs) = n
             /\ \A k \in 1..n :
                  /\ msgs[k].type = "ai_audio"
                  /\ msgs[k].done = (k = n)

\* A turn of three segments has completed: its messages carry done = false,
\* false, true.
C11_Witness ==
  \E r \in 1..Len(runs) :
    LET msgs == RunMessages(runs[r].fileId)
    IN  /\ runs[r].pc = "done"
        /\ runs[r].thrown = ""
        /\ Len(runs[r].chunks) = 3
        /\ Len(msgs) = 3
        /\ <<msgs[1].done, msgs[2].done, msgs[3].done>> = <<FALSE, FALSE, TRUE>>

\* C12 as claimed: every segment createOptimalTTSChunks returns is at most
\* maxChunkLength characters long.
C12_SegmentsWithinMax ==
  chunkerPc = "returned" =>
    \A k \in 1..Len(chunkerOut) : Len(chunkerOut[k]) <= chunkerMax

\* The characters of s that are not whitespace, in order.
StripSpaces(s) == SelectSeq(s, LAMBDA c : ~IsSpace(c))

\* The segments of a list one after another.
RECURSIVE JoinSegments(_)
JoinSegments(list) ==
  IF list = <<>> THEN <<>>
  ELSE Head(list) \o JoinSegments(Tail(list))

\* C13: the segments createOptimalTTSChunks returns, concatenated in order,
\* hold exactly the non-whitespace characters of the text, in the text's
\* order: up to whitespace the concatenation is the text, so that no
\* character other than whitespace is lost, duplicated or reordered.
C13_SegmentsReproduceText ==
  chunkerPc = "returned" =>
    StripSpaces(JoinSegments(chunkerOut)) = StripSpaces(chunkerText)

\* A text with whitespace inside has been cut into three or more segments,
\* and whitespace was dropped between them.
C13_Witness ==
  /\ chunkerPc = "returned"
  /\ Len(chunkerOut) >= 3
  /\ Len(JoinSegments(chunkerOut)) < Len(Trim(chunkerText))
  /\ \E k \in 1..Len(chunkerOut) : \E j \in 1..Len(chunkerOut[k]) :
       IsSpace(chunkerOut[k][j])

\* The text has no sentence boundary: no terminator followed by whitespace
\* and then a capital letter.
NoSentenceBoundary(s) ==
  ~\E p \in 1..Len(s), q \in 1..Len(s) :
     /\ p + 1 < q
     /\ IsTerminator(s[p])
     /\ \A k \in (p + 1)..(q - 1) : IsSpace(s[k])
     /\ IsUpper(s[q])

\* C14: createOptimalTTSChunks returns no empty segment; for an empty or
\* whitespace-only text it returns the empty array; a text without sentence
\* boundary is handled as one sentence: its trimmed text is the only segment
\* when it fits the maximum and is otherwise cut by splitLongChunk.
C14_NoEmptySegment ==
  chunkerPc = "returned" =>
    /\ \A k \in 1..Len(chunkerOut) : Len(chunkerOut[k]) > 0
    /\ (\A i \in 1..Len(chunkerText) : IsSpace(chunkerText[i])) =>
         chunkerOut = <<>>
    /\ (/\ \E i \in 1..Len(chunkerText) : ~IsSpace(chunkerText[i])
        /\ NoSentenceBoundary(chunkerText)) =>
         chunkerOut = IF Len(Trim(chunkerText)) <= chunkerMax
                      THEN <<Trim(chunkerText)>>
                      ELSE splitLongChunk(Trim(chunkerText), chunkerMax)

\* A text without sentence boundary that starts with whitespace and holds a
\* terminator has been returned as two or more segments.
C14_Witness ==
  /\ chunkerPc = "returned"
  /\ Len(chunkerText) > 0
  /\ IsSpace(chunkerText[1])
  /\ \E i \in 1..Len(chunkerText) : IsTerminator(chunkerText[i])
  /\ NoSentenceBoundary(chunkerText)
  /\ Len(chunkerOut) >= 2

\* The segments a processNextAudio call is working on or a source is playing.
ActiveSegments ==
  {id \in 1..MaxSegments : stage[id] \in {"resume", "decode", "playing", "stopped"}}

\* The segments whose source was started.
StartedSegments ==
  {id \in 1..MaxSegments : stage[id] \in {"playing", "stopped", "done"}}

\* C15: as long as stopPlayback has not been called, the segments are taken
\* and played in the order of their queueAudio calls: the sources are started
\* in increasing call order without repetition, a segment is taken up only
\* when every earlier one has ended (or failed to decode), at most one segment
\* is being decoded or played at a time, the queue holds the later segments in
\* call order, and once the player is idle again every segment enqueued has
\* been played to its end (or failed to decode).
C15_FifoPlayback ==
  stopMark = NoStop =>
    /\ \A j, k \in 1..Len(played) : j < k => played[j] < played[k]
    /\ {played[k] : k \in 1..Len(played)} = StartedSegments
    /\ Cardinality(ActiveSegments) <= 1
    /\ \A id \in ActiveSegments : \A before \in 1..(id - 1) :
         stage[before] \in {"done", "failed"}
    /\ \A k \in 1..Len(audioQueue) :
         /\ audioQueue[k] = enqueued - Len(audioQueue) + k
         /\ stage[audioQueue[k]] = "none"
         /\ \A id \in ActiveSegments : id < audioQueue[k]
    /\ ~isPlaying => \A id \in 1..enqueued : stage[id] \in {"done", "failed"}

\* Without any stop, three segments were enqueued within one playing episode
\* and all three have played to their end, in order.
C15_Witness ==
  /\ stopMark = NoStop
  /\ played = <<1, 2, 3>>
  /\ \A id \in 1..3 : stage[id] = "done"
  /\ ~isPlaying
  /\ signals = <<"start", "end">>

\* C16 as claimed: the playback-start and playback-end signals alternate,
\* beginning with a start.
C16_SignalsAlternate ==
  \A k \in 1..Len(signals) :
    signals[k] = IF k % 2 = 1 THEN "start" ELSE "end"

\* C17 as claimed: stopPlayback called on an idle player (flag clear, nothing
\* being decoded or played) changes nothing and signals nothing; called while
\* playing it signals the end once and empties the queue, and the ended
\* callback of the source it stopped signals nothing more.
C17_StopSignalsOnce ==
  [][/\ (playerEvent'.type = "stopPlayback" /\ ~isPlaying
           /\ ActiveSegments = {}) =>
          UNCHANGED <<isPlaying, audioQueue, currentSource, stage, signals>>
     /\ (playerEvent'.type = "stopPlayback" /\ isPlaying) =>
          (signals' = Append(signals, "end") /\ audioQueue' = <<>>)
     /\ (playerEvent'.type = "ended"
           /\ stage[playerEvent'.chunk] = "stopped") =>
          signals' = signals]_allVars

\* C18 as claimed: no segment enqueued before the last stopPlayback call is
\* playing after it.
C18_NothingPlaysAfterStop ==
  \A id \in 1..MaxSegments :
    (stopMark # NoStop /\ id <= stopMark) => stage[id] # "playing"

\* The player is idle: flag clear, queue empty, nothing decoding or playing.
PlayerQuiet == ~isPlaying /\ audioQueue = <<>> /\ ActiveSegments = {}

\* C19: when the decode of a segment fails, the segment is never played and
\* the same callback takes the next queued segment up for decoding, or, with
\* nothing queued, clears the playing flag and signals the end; and under
\* PlayerLiveSpec (every decode and playback completes or fails) the player
\* is eventually idle for good, the queueAudio calls being finitely many.
C19_FailureSkipsSegment ==
  /\ [][(playerEvent'.type = "failed"
           /\ stage[playerEvent'.chunk] # "failed") =>
          /\ stage'[playerEvent'.chunk] = "failed"
          /\ played' = played
          /\ IF audioQueue # <<>>
             THEN /\ stage'[Head(audioQueue)] \in {"resume", "decode"}
                  /\ audioQueue' = Tail(audioQueue)
                  /\ signals' = signals
                  /\ isPlaying' = isPlaying
             ELSE /\ isPlaying' = FALSE
                  /\ signals' = Append(signals, "end")]_allVars
  /\ [](\A id \in 1..MaxSegments :
          stage[id] = "failed" => \A k \in 1..Len(played) : played[k] # id)
  /\ <>[]PlayerQuiet

\* The first segment failed to decode, the second was played to its end, the
\* third, the last one, failed too, and the player is idle after one start
\* and one end signal.
C19_Witness ==
  /\ stage = <<"failed", "done", "failed">>
  /\ played = <<2>>
  /\ playerEvent = [type |-> "failed", chunk |-> 3]
  /\ signals = <<"start", "end">>
  /\ PlayerQuiet

\* C20 as claimed: a recording that has heard nothing above the threshold
\* for the whole silence window has been ended by the monitor (recorder
\* stopped, isRecording cleared, user_audio_end sent).
C20_SilenceEndsRecording ==
  ~(/\ isRecording
    /\ mediaRecorderRef # Null
    /\ recorders[mediaRecorderRef] = "recording"
    /\ silentFor >= SILENCE_DURATION)

\* Whether sep occurs in s at the 0-based index p.
OccursAt(s, sep, p) ==
  p + Len(sep) <= Len(s) /\ SubSeq(s, p + 1, p + Len(sep)) = sep

\* The 0-based indices up to maxLength at which separator k occurs.
Occurrences(s, k, maxLength) ==
  {p \in 0..maxLength : OccursAt(s, BreakSeparators[k], p)}

\* The rightmost of a non-empty set of indices.
Rightmost(indices) == CHOOSE p \in indices : \A q \in indices : q <= p

\* The cut the priority rule prescribes: the rightmost occurrence, at or
\* before maxLength, of the first separator in priority order whose rightmost
\* occurrence is far enough from the start; -1 when no separator has one.
\* Far enough is "at or past half the maximum" or, with strict, "past half".
RuleCut(s, maxLength, strict) ==
  LET far(p) == IF strict THEN 2 * p > maxLength ELSE 2 * p >= maxLength
      eligible == {k \in 1..Len(BreakSeparators) :
                     /\ Occurrences(s, k, maxLength) # {}
                     /\ far(Rightmost(Occurrences(s, k, maxLength)))}
  IN  IF eligible = {} THEN -1
      ELSE Rightmost(Occurrences(
             s, CHOOSE k \in eligible : \A j \in eligible : k <= j, maxLength))

\* An iteration of the loop of splitLongChunk cuts its text as the rule says:
\* through the first character of the separator found, or at maxLength when
\* none is found.
CutsByRule(strict) ==
  (splitPc = "loop" /\ Len(splitChunks') = Len(splitChunks) + 1
     /\ splitPc' = "loop") =>
    LET cut == RuleCut(splitRemaining, splitMaxLength, strict)
        at == IF cut > 0 THEN cut + 1 ELSE splitMaxLength
    IN  /\ splitChunks' =
             Append(splitChunks, Trim(SubSeq(splitRemaining, 1, at)))
        /\ splitRemaining' =
             Trim(SubSeq(splitRemaining, at + 1, Len(splitRemaining)))

\* C25 as stated: splitLongChunk tries ", ", " and ", " or ", " but ", " - "
\* and the plain space in this order and cuts at the rightmost occurrence (at
\* or before the maximum length) of the first separator whose rightmost
\* occurrence lies at or past half the maximum length; with no such separator
\* it cuts at exactly the maximum length.
C25_CutAtOrPastHalf == [][CutsByRule(FALSE)]_allVars

\* C25 amended: the same with the separator's rightmost occurrence strictly
\* past half the maximum length; a separator at exactly half is passed over.
\* A text without spaces is cut at the maximum length in every iteration, so
\* the 200 letters come back as four segments of 50.
C25_CutPastHalf ==
  /\ [][CutsByRule(TRUE)]_allVars
  /\ [][(splitPc = "loop" /\ Len(splitChunks') = Len(splitChunks) + 1
           /\ splitPc' = "loop"
           /\ \A k \in 1..Len(splitRemaining) : ~IsSpace(splitRemaining[k])) =>
          /\ splitChunks' = Append(splitChunks,
                                   SubSeq(splitRemaining, 1, splitMaxLength))
          /\ splitRemaining' = SubSeq(splitRemaining, splitMaxLength + 1,
                                      Len(splitRemaining))]_allVars
  /\ [](splitPc = "returned" /\ splitMaxLength = DefaultMaxChunkLength
          /\ Len(splitChunks) > 0 /\ Len(splitChunks[1]) = DefaultMaxChunkLength
        => splitChunks = [k \in 1..4 |-> [j \in 1..50 |-> "a"]])

\* A chunk of exactly maxLength characters has been pushed that holds a
\* space at index maxLength / 2 and no space after it: the cut was forced at
\* the maximum although a separator lay at exactly half of it.
C25_Witness ==
  \E k \in 1..Len(splitChunks) :
    LET chunk == splitChunks[k]
    IN  /\ Len(chunk) = splitMaxLength
        /\ splitMaxLength % 2 = 0
        /\ chunk[(splitMaxLength \div 2) + 1] = " "
        /\ \A j \in ((splitMaxLength \div 2) + 2)..Len(chunk) : chunk[j] # " "

\* C28: createOptimalTTSChunks terminates for every text and every maximum
\* length >= 1: each iteration of the loop of splitLongChunk strictly shortens
\* the remaining text, on the natural-break path and on the forced-cut path,
\* so the loop ends after at most as many iterations as the text has
\* characters: the chunks pushed and the characters left never outnumber them.
C28_SplitTerminates ==
  /\ [][(splitPc = "loop" /\ splitPc' = "loop") =>
          /\ Len(splitRemaining') < Len(splitRemaining)
          /\ Len(splitChunks') + Len(splitRemaining')
               <= Len(splitChunks) + Len(splitRemaining)]_allVars
  /\ [](splitMaxLength >= 1)

\* A call has returned after two or more iterations, one of which broke
\* after a comma and another pushed a full-length chunk.
C28_Witness ==
  /\ splitPc = "returned"
  /\ Len(splitChunks) >= 3
  /\ \E k \in 1..(Len(splitChunks) - 1) :
       splitChunks[k][Len(splitChunks[k])] = ","
  /\ \E k \in 1..(Len(splitChunks) - 1) :
       /\ Len(splitChunks[k]) = splitMaxLength
       /\ splitChunks[k][Len(splitChunks[k])] # ","

\* The segments a processNextAudio chain holds: shifted off the queue and
\* awaiting resume() or decodeAudioData, or playing in a started source.
ChainSegments ==
  {id \in 1..MaxSegments : stage[id] \in {"resume", "decode", "playing"}}

\* C26: at most one audio source is playing and at most one processNextAudio
\* chain is active at any time, whatever the interleaving of queueAudio,
\* stopPlayback, decode completions and ended callbacks; and the player is
\* never marked idle while a segment is still decoding or playing.
C26_OneChainOneSource ==
  /\ Cardinality({id \in 1..MaxSegments : stage[id] = "playing"}) <= 1
  /\ Cardinality(ChainSegments) <= 1
  /\ ~isPlaying => ChainSegments = {}

\* C21: once recording has stopped, monitoring is stopped: while the client
\* is not recording no silence timer is pending and no volume-sampling frame
\* is scheduled, from the stop until the next recording starts; the step
\* that stops a recording leaves both cleared.
C21_StoppedMeansUnmonitored ==
  ~isRecording => (animationFrame = Null /\ volumeTimeout = Null)

\* A recording made with the analyser in place has gone through a silence
\* window and was then stopped by stopRecording: the recorder is inactive,
\* the end message sent, and neither frame nor timer is pending.
C21_Witness ==
  /\ clientEvent = "stopRecording"
  /\ ~isRecording
  /\ analyserRef
  /\ mediaRecorderRef # Null
  /\ recorders[mediaRecorderRef] = "inactive"
  /\ recordingStatus = "processing"
  /\ \E k \in 1..Len(outbox) : outbox[k].type = "user_audio_end"
  /\ animationFrame = Null /\ volumeTimeout = Null

\* C22 as claimed: for every recording the client sends user_audio_start
\* first, then the chunks of that recording in capture order, and
\* user_audio_end last: no chunk of a recording is sent after that
\* recording's user_audio_end, the slice flushed by stop() and the slices
\* still being encoded included.
C22_StartChunksEnd ==
  \A p \in 1..Len(outbox), q \in 1..Len(outbox) :
    (p < q /\ outbox[q].type = "user_audio_chunk") =>
      /\ ~(outbox[p].type = "user_audio_end"
            /\ outbox[p].recording = outbox[q].recording)
      /\ outbox[p].type = "user_audio_chunk" =>
           outbox[p].chunk < outbox[q].chunk
      /\ \E k \in 1..(q - 1) :
           /\ outbox[k].type = "user_audio_start"
           /\ outbox[k].recording = outbox[q].recording

\* Whether the player has signalled a playback start not yet followed by a
\* playback end.
PlaybackSignalled == signals # <<>> /\ signals[Len(signals)] = "start"

\* C23 as claimed: between a playback-start signal and the matching
\* playback-end signal no step begins a recording or sends user_audio_start;
\* after the playback-end signal recording is allowed again.
C23_PlaybackGatesCapture ==
  /\ [][PlaybackSignalled =>
          /\ recordingNo' = recordingNo
          /\ isRecording' => isRecording
          /\ \/ outbox' = outbox
             \/ outbox'[Len(outbox')].type # "user_audio_start"]_allVars
  /\ [](~canRecord => PlaybackSignalled)

\* C24: when getUserMedia fails for a startRecording call, the call sets the
\* error status and ends: the client does not enter the recording state, no
\* recorder is created or started, and no user_audio_start is sent.
C24_DeniedFailsClosed ==
  [][clientEvent' = "initAudioFailed" /\ pendingStarts' # pendingStarts =>
       /\ statusMessage' = "Failed to access microphone"
       /\ isRecording' = isRecording
       /\ recordingStatus' = recordingStatus
       /\ recordingNo' = recordingNo
       /\ recorders' = recorders
       /\ mediaRecorderRef' = mediaRecorderRef
       /\ outbox' = outbox]_allVars

\* A connected client whose first startRecording call was refused the
\* microphone: it shows the failure, is not recording and has sent nothing.
C24_Witness ==
  /\ clientEvent = "initAudioFailed"
  /\ connectionStatus = "connected"
  /\ wsReadyState = "open"
  /\ statusMessage = "Failed to access microphone"
  /\ ~isRecording
  /\ recorders = <<>>
  /\ outbox = <<>>

\* C27 as claimed: the client never begins a recording between its
\* user_audio_end and the end of the server's processing of that turn, so no
\* user_audio_start of the client reaches the server while the session is
\* Processing, where the in-progress guard would drop it.
C27_StartNeverDropped ==
  event.type = "user_audio_start" => event.phase # "Processing"

====
